---- MODULE Spec2Model ----
(***************************************************************************)
(* LifeX backend: the login-lockout state machine of UserLoginView         *)
(* (users/views.py) and the register / verify pipeline of the medical      *)
(* record views (blockchain/medical_views.py) over the MedicalRecord,      *)
(* BlockchainTransaction and AuditLog tables (blockchain/models.py).       *)
(***************************************************************************)
EXTENDS Integers, Sequences, FiniteSets, TLC

(***************************************************************************)
(* Bounds of the model                                                     *)
(***************************************************************************)
MaxTime == 1350
\* largest clock value the model lets the wall clock reach (seconds)

MaxAudit == 2
\* largest number of AuditLog rows

MaxLedger == 4
\* largest number of ledger transactions (and of BlockchainTransaction rows)

MaxRecords == 2
\* largest number of MedicalRecord rows

Subjects == {"u1", "u2"}
\* the users of the system

DocIds == {"d1", "d2"}
\* values generate_document_id() may return

EncryptedPhoneUsers == {"u2"}
\* the users whose phone number is stored encrypted

Staff == {"n1"}
\* the users that upload records

TickSteps == {450, 900}
\* amounts of time that may pass between two requests

Admins == {"a1"}
\* the users with role ADMIN

FileBytes == {1, 2}
\* contents a document file may have: two byte strings that differ

MaxVault == 2
\* largest number of ciphertexts the model keeps to decrypt later

Texts == {<<>>, <<"a">>, <<"e'", "\n", "a", "\n">>}
\* plaintexts: the empty string, one line, several lines with a character
\* outside ASCII ("e'" stands for U+00E9) and a newline at the end

Keys == {"k1", "k2"}
\* Fernet keys; ProcessKey is the one the process is configured with

IVs == {1, 2}
\* values of the random part of a Fernet token (iv and timestamp)

ProvisionIds == {"s1", "s2"}
\* the staff users an admin may provision

Tokens == {"t1", "t2"}
\* the tokens generated for invitations

UnknownToken == "t0"
\* a token no invitation has

Passwords == {"p1", "p2"}
\* passwords that pass validate_password

NumRequests == 2
\* number of login requests that run concurrently

Requests == 1..NumRequests

(***************************************************************************)
(* Program constants                                                       *)
(***************************************************************************)
LOCKOUT_THRESHOLD == 5
LOCKOUT_SECONDS == 900

NoUser == "none"
\* Python None where a user is expected

NoTime == -1
\* Python None where a datetime is expected

VARIABLES
    now,                    \* timezone.now()
    failed_login_attempts,  \* User.failed_login_attempts
    last_failed_login,      \* User.last_failed_login
    is_active,              \* User.is_active
    phone_encrypted,        \* user's phone number is stored encrypted: it is
                            \* found by phone_number_hash, not by phone_number
    audit_log,              \* AuditLog rows, in insertion order
    resp,                   \* the response of the last request
    streak,                 \* history: consecutive failed attempts of a subject
    prev_failure,           \* history: time of the subject's previous failed attempt
    reqs,                   \* login requests in progress: position and locals
    start_attempts,         \* history: the counters before any request ran
    ledger,                 \* transactions of the simulated chain, in block order
    records,                \* MedicalRecord rows, in insertion order
    transactions,           \* BlockchainTransaction rows, in insertion order
    users,                  \* User rows that exist
    vault,                  \* ciphertexts the EncryptionManager has produced
    staff_accounts,         \* is_active and password of the provisioned staff users
    invitations             \* StaffInvitation rows

race_vars == <<reqs, start_attempts>>

ledger_vars == <<ledger, records, transactions>>

history_vars == <<streak, prev_failure>>

store_vars == <<users, vault, staff_accounts, invitations>>

vars == <<now, failed_login_attempts, last_failed_login, is_active,
          phone_encrypted, audit_log, resp, streak, prev_failure,
          reqs, start_attempts, ledger, records, transactions, users, vault,
          staff_accounts, invitations>>

(***************************************************************************)
(* Helpers                                                                 *)
(***************************************************************************)
Min(a, b) == IF a < b THEN a ELSE b

AuditEntry(user, action, resource_type, resource_id, is_encrypted) ==
    [user |-> user, action |-> action, resource_type |-> resource_type,
     resource_id |-> resource_id, is_encrypted |-> is_encrypted,
     created_at |-> now]

\* Python None
Null == [kind |-> "none"]

\* a str holding text
Str(chars) == [kind |-> "str", chars |-> chars]

\* a str holding the base64 text of a Fernet token
TokenStr(token) == [kind |-> "token_str", token |-> token]

(***************************************************************************)
(* UserLoginView.post, users/views.py:129-242                              *)
(***************************************************************************)
\* views.py:140-144: the user the lockout bookkeeping is done on.  An email
\* finds the user; a phone number finds it only when it is stored as typed.
TempUser(ident, s) ==
    IF s = NoUser THEN NoUser
    ELSE IF ident = "email" THEN s
    ELSE IF phone_encrypted[s] THEN NoUser ELSE s

\* views.py:159-181: authenticate() for the user the identifier designates
\* (by email, by phone_number or by phone_number_hash).  A backend may or may
\* not hand back an inactive user whose password is right.
Authenticate(s, password_ok, backend_allows_inactive) ==
    IF s # NoUser /\ password_ok /\ (is_active[s] \/ backend_allows_inactive)
    THEN s ELSE NoUser

\* faulty variant of LockedOut: the time since the last failure is not looked at
LockedOut_Forever(attempts, last_failed, t) ==
    /\ attempts >= LOCKOUT_THRESHOLD
    /\ last_failed # NoTime

\* views.py:146-148: counter at the threshold and last failure under 900 s ago
LockedOut(attempts, last_failed, t) ==
    /\ attempts >= LOCKOUT_THRESHOLD
    /\ last_failed # NoTime
    /\ t - last_failed < LOCKOUT_SECONDS

\* a login response, with what the request found: was_locked and
\* attempts_before are the subject's lock state and counter at the request
LoginResponse(s, status, kind, tokens) ==
    [op |-> "login", subject |-> s, status |-> status, kind |-> kind,
     tokens |-> tokens,
     was_locked |-> (s # NoUser /\ LockedOut(failed_login_attempts[s],
                                            last_failed_login[s], now)),
     attempts_before |-> IF s = NoUser THEN 0 ELSE failed_login_attempts[s]]

\* faulty variant of ExpireLockout: the counter is not reset when the
\* lockout has run out
ExpireLockout_Kept(attempts) == attempts

\* views.py:146,154-157: a counter at the threshold whose lockout has run out
\* is reset to 0 and saved before the credentials are checked
ExpireLockout(attempts) ==
    IF attempts >= LOCKOUT_THRESHOLD THEN 0 ELSE attempts

\* views.py:187: the counter after one more failure
BumpFailed(attempts) == attempts + 1

\* views.py:192: the failure that has just locked the account
JustLocked(attempts) == attempts = LOCKOUT_THRESHOLD

\* views.py:228: the counter a successful login writes
SuccessAttempts(attempts) == 0

\* faulty variant of SuccessLastFailed: the timestamp is left as it was
SuccessLastFailed_Kept(last_failed) == last_failed

\* views.py:229: the last-failure timestamp a successful login writes
SuccessLastFailed(last_failed) == NoTime

\* isLocked(subject): the lock state of a subject, as the login view decides it
IsLocked(s) == LockedOut(failed_login_attempts[s], last_failed_login[s], now)

\* the counters as saved by views.py:156-157 for the looked-up user
AfterExpiry(tu) ==
    IF tu = NoUser THEN failed_login_attempts
    ELSE [failed_login_attempts EXCEPT ![tu] = ExpireLockout(@)]

LoginInputs(ident, s) ==
    /\ ident \in {"email", "phone"}
    /\ s \in Subjects \cup {NoUser}

\* faulty variant of RefusedLastFailed: a refused request counts as a failure
RefusedLastFailed_Now(last_failed) == now

\* views.py:150-153: the request returns before anything is saved
RefusedLastFailed(last_failed) == last_failed

\* views.py:146-153: refused while locked, 403, nothing written
LoginRefused(ident, s) ==
    LET tu == TempUser(ident, s) IN
    /\ LoginInputs(ident, s)
    /\ tu # NoUser
    /\ IsLocked(tu)
    /\ resp' = LoginResponse(s, 403, "locked", FALSE)
    /\ last_failed_login' =
          [last_failed_login EXCEPT ![tu] = RefusedLastFailed(@)]
    /\ UNCHANGED <<now, failed_login_attempts, is_active,
                   phone_encrypted, audit_log, streak, prev_failure>>
    /\ UNCHANGED <<race_vars, ledger_vars, store_vars>>

\* views.py:183-219: authenticate() gave no user, 401
LoginFailed(ident, s, password_ok) ==
    LET tu == TempUser(ident, s)
        base == AfterExpiry(tu)
        n == IF tu = NoUser THEN 0 ELSE BumpFailed(base[tu])
    IN
    /\ LoginInputs(ident, s)
    /\ password_ok \in BOOLEAN
    /\ ~(tu # NoUser /\ IsLocked(tu))
    /\ Authenticate(s, password_ok, FALSE) = NoUser
    /\ IF tu = NoUser
       THEN UNCHANGED <<failed_login_attempts, last_failed_login, audit_log>>
       ELSE /\ failed_login_attempts' = [base EXCEPT ![tu] = n]
            /\ last_failed_login' = [last_failed_login EXCEPT ![tu] = now]
            /\ IF JustLocked(n)
               THEN /\ Len(audit_log) < MaxAudit
                    /\ audit_log' = Append(audit_log,
                          AuditEntry(NoUser, "ACCOUNT_LOCKOUT", "USER", tu, FALSE))
               ELSE UNCHANGED audit_log
    /\ resp' = LoginResponse(s, 401, "invalid", FALSE)
    /\ IF s = NoUser
       THEN UNCHANGED <<streak, prev_failure>>
       ELSE /\ streak' = [streak EXCEPT ![s] =
                   IF @ > 0 /\ now - prev_failure[s] < LOCKOUT_SECONDS
                   THEN Min(@ + 1, LOCKOUT_THRESHOLD) ELSE 1]
            /\ prev_failure' = [prev_failure EXCEPT ![s] = now]
    /\ UNCHANGED <<now, is_active, phone_encrypted>>
    /\ UNCHANGED <<race_vars, ledger_vars, store_vars>>

\* views.py:221-225: the backend returned an inactive user, 403
LoginDisabled(ident, s) ==
    LET tu == TempUser(ident, s) IN
    /\ LoginInputs(ident, s)
    /\ ~(tu # NoUser /\ IsLocked(tu))
    /\ Authenticate(s, TRUE, TRUE) # NoUser
    /\ ~is_active[s]
    /\ failed_login_attempts' = AfterExpiry(tu)
    /\ resp' = LoginResponse(s, 403, "disabled", FALSE)
    /\ UNCHANGED <<now, last_failed_login, is_active, phone_encrypted,
                   audit_log, streak, prev_failure>>
    /\ UNCHANGED <<race_vars, ledger_vars, store_vars>>

\* views.py:227-242: success, counters reset, tokens issued, 200
LoginSucceeded(ident, s) ==
    LET tu == TempUser(ident, s) IN
    /\ LoginInputs(ident, s)
    /\ ~(tu # NoUser /\ IsLocked(tu))
    /\ Authenticate(s, TRUE, FALSE) # NoUser
    /\ failed_login_attempts' = [AfterExpiry(tu) EXCEPT ![s] = SuccessAttempts(@)]
    /\ last_failed_login' = [last_failed_login EXCEPT ![s] = SuccessLastFailed(@)]
    /\ resp' = LoginResponse(s, 200, "ok", TRUE)
    /\ streak' = [streak EXCEPT ![s] = 0]
    /\ prev_failure' = [prev_failure EXCEPT ![s] = NoTime]
    /\ UNCHANGED <<now, is_active, phone_encrypted, audit_log>>
    /\ UNCHANGED <<race_vars, ledger_vars, store_vars>>

\* time passes between requests
Tick ==
    /\ \E d \in TickSteps : now + d <= MaxTime /\ now' = now + d
    /\ UNCHANGED <<failed_login_attempts, last_failed_login, is_active,
                   phone_encrypted, audit_log, resp, streak, prev_failure>>
    /\ UNCHANGED <<race_vars, ledger_vars, store_vars>>

NoResponse == [op |-> "none"]

\* the account columns of a staff user that has not been provisioned
NoAccount == [is_active |-> FALSE, password |-> "none"]

\* a request slot no request occupies
IdleRequest ==
    [pc |-> "idle", subject |-> NoUser, password_ok |-> FALSE,
     attempts |-> 0, last_failed |-> NoTime, status |-> 0, t_fail |-> NoTime]

\* the tables are empty, no user has failed a login
Init ==
    /\ now = 0
    /\ failed_login_attempts = [s \in Subjects |-> 0]
    /\ last_failed_login = [s \in Subjects |-> NoTime]
    /\ is_active \in [Subjects -> BOOLEAN]
    /\ phone_encrypted = [s \in Subjects |-> s \in EncryptedPhoneUsers]
    /\ audit_log = <<>>
    /\ resp = NoResponse
    /\ streak = [s \in Subjects |-> 0]
    /\ prev_failure = [s \in Subjects |-> NoTime]
    /\ reqs = [r \in Requests |-> IdleRequest]
    /\ start_attempts = failed_login_attempts
    /\ ledger = <<>>
    /\ records = <<>>
    /\ transactions = <<>>
    /\ users = Subjects \cup Staff
    /\ vault = {}
    /\ staff_accounts = [s \in ProvisionIds |-> NoAccount]
    /\ invitations = {}

NextLogin ==
    \/ Tick
    \/ \E ident \in {"email", "phone"}, s \in Subjects \cup {NoUser} :
          \/ LoginRefused(ident, s)
          \/ \E ok \in BOOLEAN : LoginFailed(ident, s, ok)
          \/ LoginDisabled(ident, s)
          \/ LoginSucceeded(ident, s)

SpecLogin == Init /\ [][NextLogin]_vars

(***************************************************************************)
(* Properties of the lockout state machine                                 *)
(***************************************************************************)
\* ACCOUNT_LOCKOUT rows written for subject s
LockoutEntries(s) ==
    Cardinality({i \in DOMAIN audit_log :
                    /\ audit_log[i].action = "ACCOUNT_LOCKOUT"
                    /\ audit_log[i].resource_id = s})

\* C1: after five consecutive failed attempts of a subject, each within the
\* lockout window of the one before and with no success in between, the
\* counter is at least 5 and the subject is locked for as long as less than
\* the lockout duration has passed since the last of them.
C1_FiveFailuresLock ==
    \A s \in Subjects :
        ( /\ streak[s] >= LOCKOUT_THRESHOLD
          /\ now - prev_failure[s] < LOCKOUT_SECONDS )
        => ( /\ failed_login_attempts[s] >= LOCKOUT_THRESHOLD
             /\ IsLocked(s) )

\* C2: a login request made while its subject is locked is not
\* authenticated: it is answered with an error status and gets no tokens.
C2_LockedRefused ==
    (resp.op = "login" /\ resp.was_locked) =>
        (resp.status # 200 /\ ~resp.tokens)

\* C3: a successful login leaves its subject with a failed counter of 0 and
\* no last-failure timestamp.
C3_SuccessResets ==
    (resp.op = "login" /\ resp.kind = "ok") =>
        /\ failed_login_attempts[resp.subject] = 0
        /\ last_failed_login[resp.subject] = NoTime

\* a success that followed recorded failures
C3_Witness ==
    /\ resp.op = "login" /\ resp.kind = "ok"
    /\ resp.attempts_before > 0

\* C4: a login failure that comes more than the lockout duration after the
\* subject's previous failure leaves the failed counter at 1, whatever the
\* counter was before (1 to 5).  Stated for the requests whose identifier
\* finds the user row, the ones the view counts.
C4_StaleFailureRestarts ==
    [][\A ident \in {"email", "phone"}, s \in Subjects, ok \in BOOLEAN :
          ( /\ LoginFailed(ident, s, ok)
            /\ TempUser(ident, s) = s
            /\ failed_login_attempts[s] \in 1..LOCKOUT_THRESHOLD
            /\ last_failed_login[s] # NoTime
            /\ now - last_failed_login[s] > LOCKOUT_SECONDS )
          => failed_login_attempts'[s] = 1]_vars

\* C5: an ACCOUNT_LOCKOUT row with no actor and the subject as resource id
\* is appended by exactly the steps that take the subject's failed counter
\* from below the threshold to the threshold, and by no other step: one row
\* for each lockout episode.  It holds of requests handled one at a time
\* (SpecLogin) and fails when two failing requests overlap (SpecRace).
C5_LockoutAudited ==
    [][/\ \A s \in Subjects :
            LockoutEntries(s)' = LockoutEntries(s) +
                (IF /\ failed_login_attempts[s] < LOCKOUT_THRESHOLD
                    /\ failed_login_attempts'[s] >= LOCKOUT_THRESHOLD
                 THEN 1 ELSE 0)
       /\ \A i \in DOMAIN audit_log' :
            audit_log'[i].action = "ACCOUNT_LOCKOUT" =>
                /\ audit_log'[i].user = NoUser
                /\ audit_log'[i].resource_id \in Subjects]_vars

(***************************************************************************)
(* UserLoginView.post under concurrent requests.  The view takes no lock   *)
(* and opens no transaction: it loads the user row (views.py:142), works   *)
(* on its in-memory copy and writes the copy back with save()              *)
(* (views.py:157, 189, 230).  Each database access is one step.            *)
(***************************************************************************)
\* views.py:140-144: the request loads its copy of the user row
ReqLoad(r, s, password_ok) ==
    /\ reqs[r].pc = "idle"
    /\ s \in Subjects
    /\ password_ok \in BOOLEAN
    /\ reqs' = [reqs EXCEPT ![r] =
                  [pc |-> "loaded", subject |-> s, password_ok |-> password_ok,
                   attempts |-> failed_login_attempts[s],
                   last_failed |-> last_failed_login[s],
                   status |-> 0, t_fail |-> NoTime]]
    /\ UNCHANGED <<now, failed_login_attempts, last_failed_login, is_active,
                   phone_encrypted, audit_log, resp, start_attempts>>
    /\ UNCHANGED <<history_vars, ledger_vars, store_vars>>

\* views.py:146-153: the copy says locked, 403
ReqRefused(r) ==
    LET q == reqs[r] IN
    /\ q.pc = "loaded"
    /\ LockedOut(q.attempts, q.last_failed, now)
    /\ reqs' = [reqs EXCEPT ![r].pc = "done", ![r].status = 403]
    /\ UNCHANGED <<now, failed_login_attempts, last_failed_login, is_active,
                   phone_encrypted, audit_log, resp, start_attempts>>
    /\ UNCHANGED <<history_vars, ledger_vars, store_vars>>

\* views.py:146,154-157: not locked; a copy at the threshold is reset and saved
ReqCheck(r) ==
    LET q == reqs[r] IN
    /\ q.pc = "loaded"
    /\ ~LockedOut(q.attempts, q.last_failed, now)
    /\ IF q.attempts >= LOCKOUT_THRESHOLD
       THEN /\ failed_login_attempts' =
                 [failed_login_attempts EXCEPT ![q.subject] = ExpireLockout(q.attempts)]
            /\ last_failed_login' =
                 [last_failed_login EXCEPT ![q.subject] = q.last_failed]
       ELSE UNCHANGED <<failed_login_attempts, last_failed_login>>
    /\ reqs' = [reqs EXCEPT ![r].pc = "checked",
                            ![r].attempts = ExpireLockout(q.attempts)]
    /\ UNCHANGED <<now, is_active, phone_encrypted, audit_log, resp, start_attempts>>
    /\ UNCHANGED <<history_vars, ledger_vars, store_vars>>

\* views.py:183-219: authenticate() gave no user; the copy is incremented
\* and saved, 401
ReqRecordFailure(r) ==
    LET q == reqs[r]
        n == BumpFailed(q.attempts)
    IN
    /\ q.pc = "checked"
    /\ Authenticate(q.subject, q.password_ok, FALSE) = NoUser
    /\ failed_login_attempts' = [failed_login_attempts EXCEPT ![q.subject] = n]
    /\ last_failed_login' = [last_failed_login EXCEPT ![q.subject] = now]
    /\ IF JustLocked(n)
       THEN /\ Len(audit_log) < MaxAudit
            /\ audit_log' = Append(audit_log,
                  AuditEntry(NoUser, "ACCOUNT_LOCKOUT", "USER", q.subject, FALSE))
       ELSE UNCHANGED audit_log
    /\ reqs' = [reqs EXCEPT ![r].pc = "done", ![r].status = 401,
                            ![r].attempts = n, ![r].t_fail = now]
    /\ UNCHANGED <<now, is_active, phone_encrypted, resp, start_attempts>>
    /\ UNCHANGED <<history_vars, ledger_vars, store_vars>>

\* views.py:227-242: authenticate() gave the user; reset and saved, 200
ReqRecordSuccess(r) ==
    LET q == reqs[r] IN
    /\ q.pc = "checked"
    /\ Authenticate(q.subject, q.password_ok, FALSE) # NoUser
    /\ failed_login_attempts' =
          [failed_login_attempts EXCEPT ![q.subject] = SuccessAttempts(@)]
    /\ last_failed_login' =
          [last_failed_login EXCEPT ![q.subject] = SuccessLastFailed(@)]
    /\ reqs' = [reqs EXCEPT ![r].pc = "done", ![r].status = 200]
    /\ UNCHANGED <<now, is_active, phone_encrypted, audit_log, resp, start_attempts>>
    /\ UNCHANGED <<history_vars, ledger_vars, store_vars>>

\* users that have already failed some logins, the last one just now
InitRace ==
    /\ now = 0
    /\ failed_login_attempts \in [Subjects -> 0..(LOCKOUT_THRESHOLD - 1)]
    /\ last_failed_login =
          [s \in Subjects |-> IF failed_login_attempts[s] = 0 THEN NoTime ELSE 0]
    /\ is_active = [s \in Subjects |-> TRUE]
    /\ phone_encrypted = [s \in Subjects |-> s \in EncryptedPhoneUsers]
    /\ audit_log = <<>>
    /\ resp = NoResponse
    /\ streak = [s \in Subjects |-> 0]
    /\ prev_failure = [s \in Subjects |-> NoTime]
    /\ reqs = [r \in Requests |-> IdleRequest]
    /\ start_attempts = failed_login_attempts
    /\ ledger = <<>>
    /\ records = <<>>
    /\ transactions = <<>>
    /\ users = Subjects \cup Staff
    /\ vault = {}
    /\ staff_accounts = [s \in ProvisionIds |-> NoAccount]
    /\ invitations = {}

NextRace ==
    \/ Tick
    \/ \E r \in Requests :
          \/ \E s \in Subjects, ok \in BOOLEAN : ReqLoad(r, s, ok)
          \/ ReqRefused(r)
          \/ ReqCheck(r)
          \/ ReqRecordFailure(r)
          \/ ReqRecordSuccess(r)

SpecRace == InitRace /\ [][NextRace]_vars

AllDone == \A r \in Requests : reqs[r].pc = "done"

FailedRequests(s) ==
    {r \in Requests : reqs[r].subject = s /\ reqs[r].status = 401}

SucceededRequests(s) ==
    {r \in Requests : reqs[r].subject = s /\ reqs[r].status = 200}

\* C6: counter updates of one subject are linearized.  When k concurrent
\* failed logins of a subject whose counter was c, with c + k <= 5, have all
\* finished, the counter is c + k; when one success and one failure of the
\* same subject have finished, the counter and the last-failure timestamp
\* are those of one of the two serial orders: (0, none) or (1, time of the
\* failure).
C6_Linearized ==
    AllDone =>
        \A s \in Subjects :
            LET k == Cardinality(FailedRequests(s)) IN
            /\ ( /\ FailedRequests(s) = Requests
                 /\ start_attempts[s] + k <= LOCKOUT_THRESHOLD )
               => failed_login_attempts[s] = start_attempts[s] + k
            /\ ( /\ k = 1
                 /\ Cardinality(SucceededRequests(s)) = 1
                 /\ FailedRequests(s) \cup SucceededRequests(s) = Requests )
               => \E f \in FailedRequests(s) :
                     \/ /\ failed_login_attempts[s] = 0
                        /\ last_failed_login[s] = NoTime
                     \/ /\ failed_login_attempts[s] = 1
                        /\ last_failed_login[s] = reqs[f].t_fail

(***************************************************************************)
(* Hasher and LedgerSimulator (blockchain/utils.py hash_file and           *)
(* blockchain/blockchain_service.py BlockchainService, as the views call   *)
(* them)                                                                   *)
(***************************************************************************)
\* hash_file(file): the digest of the file's bytes; distinct contents have
\* distinct digests
Fingerprint(bytes) == 7 * bytes + 100

\* get_account_for_user(user_id): the address derived from the user
AddressFor(user) == <<"0x", user>>

\* the gas figure stored with the n-th transaction
GasFor(n) == 21000 + n

\* positions of the REGISTER transactions of a document
RegisterTxs(document_id) ==
    {i \in DOMAIN ledger : /\ ledger[i].type = "REGISTER"
                           /\ ledger[i].document_id = document_id}

\* faulty variant of DocumentRegistered: the duplicate check is missing
DocumentRegistered_Never(document_id) == FALSE

\* register_document refuses a document identifier that has a transaction
DocumentRegistered(document_id) == RegisterTxs(document_id) # {}

\* the transaction the ledger appends: one block per transaction, the hash
\* is fresh
LedgerTx(type, user, document_id, document_hash, status) ==
    [type |-> type, address |-> AddressFor(user), document_id |-> document_id,
     document_hash |-> document_hash, status |-> status,
     transaction_hash |-> Len(ledger) + 1, block_number |-> Len(ledger) + 1,
     gas_used |-> GasFor(Len(ledger) + 1)]

\* register_document(user_id, document_id, document_hash, document_type)
RegisterTx(user, document_id, document_hash) ==
    LedgerTx("REGISTER", user, document_id, document_hash, "SUCCESS")

\* verify_document(document_id, document_hash): the fingerprint presented
\* is compared with the one of the document's REGISTER transaction
VerifyIsValid(document_id, document_hash) ==
    \E i \in RegisterTxs(document_id) : ledger[i].document_hash = document_hash

VerifyTx(user, document_id, document_hash) ==
    LedgerTx("VERIFY", user, document_id, document_hash,
             IF VerifyIsValid(document_id, document_hash) THEN "SUCCESS" ELSE "FAILED")

(***************************************************************************)
(* UploadMedicalRecordView.post, blockchain/medical_views.py:96-175        *)
(***************************************************************************)
\* models.py:68: document_id is unique in the MedicalRecord table
DocumentIdFree(document_id) ==
    \A i \in DOMAIN records : records[i].document_id # document_id

\* medical_views.py:136: the verified flag a new record is stored with
UploadVerifiedFlag == TRUE

\* faulty variant of UploadLogEncrypted: log_action is called without the
\* flag and its default applies (medical_views.py:31)
UploadLogEncrypted_Default == FALSE

\* medical_views.py:159: the encrypted flag of the UPLOAD_RECORD audit entry
UploadLogEncrypted == TRUE

\* medical_views.py:127-139: the row serializer.save() inserts.  The uploads
\* of the model leave description and department blank (models.py:50, 53).
NewRecord(patient, uploader, document_id, bytes, tx) ==
    [id |-> Len(records) + 1, patient |-> patient, uploaded_by |-> uploader,
     document_file |-> bytes, document_id |-> document_id,
     document_hash |-> Fingerprint(bytes),
     blockchain_address |-> AddressFor(patient),
     transaction_hash |-> tx.transaction_hash, block_number |-> tx.block_number,
     status |-> "CONFIRMED", is_verified |-> UploadVerifiedFlag,
     is_encrypted |-> TRUE,
     description |-> Str(<<>>), department |-> Str(<<>>)]

\* medical_views.py:142-149, 256-263: the BlockchainTransaction row
TransactionRow(user, type, tx, status) ==
    [user |-> user, transaction_type |-> type,
     transaction_hash |-> tx.transaction_hash, block_number |-> tx.block_number,
     gas_used |-> tx.gas_used, status |-> status]

UploadInputs(uploader, patient, bytes, document_id) ==
    /\ uploader \in Staff
    /\ patient \in Subjects
    /\ bytes \in FileBytes
    /\ document_id \in DocIds

\* medical_views.py:107-170: registered, stored, logged, 201
UploadRegistered(uploader, patient, bytes, document_id) ==
    LET tx == RegisterTx(patient, document_id, Fingerprint(bytes))
        rec == NewRecord(patient, uploader, document_id, bytes, tx)
    IN
    /\ UploadInputs(uploader, patient, bytes, document_id)
    /\ Len(ledger) < MaxLedger
    /\ Len(records) < MaxRecords
    /\ ~DocumentRegistered(document_id)
    /\ DocumentIdFree(document_id)
    /\ ledger' = Append(ledger, tx)
    /\ records' = Append(records, rec)
    /\ transactions' = Append(transactions,
                              TransactionRow(patient, "REGISTER", tx, "SUCCESS"))
    /\ audit_log' = Append(audit_log,
          AuditEntry(uploader, "UPLOAD_RECORD", "MEDICAL_RECORD", rec.id,
                     UploadLogEncrypted))
    /\ resp' = [op |-> "upload", status |-> 201, kind |-> "created",
                document_id |-> document_id, record |-> rec.id]
    /\ UNCHANGED <<now, failed_login_attempts, last_failed_login, is_active,
                   phone_encrypted>>
    /\ UNCHANGED <<history_vars, race_vars, store_vars>>

\* medical_views.py:172-175: an exception of the try block, 500.  The ledger
\* refuses the identifier and nothing is written, or the ledger accepts it
\* and the insert of the record breaks the unique constraint.
UploadRejected(uploader, patient, bytes, document_id) ==
    /\ UploadInputs(uploader, patient, bytes, document_id)
    /\ IF DocumentRegistered(document_id)
       THEN /\ resp' = [op |-> "upload", status |-> 500,
                        kind |-> "DuplicateDocumentError",
                        document_id |-> document_id, record |-> 0]
            /\ UNCHANGED ledger
       ELSE /\ ~DocumentIdFree(document_id)
            /\ Len(ledger) < MaxLedger
            /\ ledger' = Append(ledger,
                  RegisterTx(patient, document_id, Fingerprint(bytes)))
            /\ resp' = [op |-> "upload", status |-> 500,
                        kind |-> "IntegrityError",
                        document_id |-> document_id, record |-> 0]
    /\ UNCHANGED <<records, transactions, audit_log>>
    /\ UNCHANGED <<now, failed_login_attempts, last_failed_login, is_active,
                   phone_encrypted>>
    /\ UNCHANGED <<history_vars, race_vars, store_vars>>

\* medical_views.py:116-121, 172-175: register_document raises because the
\* ledger store cannot be written; the except clause answers 500 and nothing
\* has been written
UploadLedgerFailed(uploader, patient, bytes, document_id) ==
    /\ UploadInputs(uploader, patient, bytes, document_id)
    /\ resp' = [op |-> "upload", status |-> 500, kind |-> "LedgerUnavailable",
                document_id |-> document_id, record |-> 0]
    /\ UNCHANGED <<ledger, records, transactions, audit_log>>
    /\ UNCHANGED <<now, failed_login_attempts, last_failed_login, is_active,
                   phone_encrypted>>
    /\ UNCHANGED <<history_vars, race_vars, store_vars>>

\* medical_views.py:152-160, 172-175: AuditLog.objects.create raises inside
\* log_action.  The ledger transaction, the record and the
\* BlockchainTransaction row are already written and stay; the except
\* clause answers 500.
UploadAuditFailed(uploader, patient, bytes, document_id) ==
    LET tx == RegisterTx(patient, document_id, Fingerprint(bytes))
        rec == NewRecord(patient, uploader, document_id, bytes, tx)
    IN
    /\ UploadInputs(uploader, patient, bytes, document_id)
    /\ Len(ledger) < MaxLedger
    /\ Len(records) < MaxRecords
    /\ ~DocumentRegistered(document_id)
    /\ DocumentIdFree(document_id)
    /\ ledger' = Append(ledger, tx)
    /\ records' = Append(records, rec)
    /\ transactions' = Append(transactions,
                              TransactionRow(patient, "REGISTER", tx, "SUCCESS"))
    /\ resp' = [op |-> "upload", status |-> 500, kind |-> "AuditWriteFailure",
                document_id |-> document_id, record |-> 0]
    /\ UNCHANGED audit_log
    /\ UNCHANGED <<now, failed_login_attempts, last_failed_login, is_active,
                   phone_encrypted>>
    /\ UNCHANGED <<history_vars, race_vars, store_vars>>

(***************************************************************************)
(* VerifyMyRecordView.post, blockchain/medical_views.py:236-285            *)
(***************************************************************************)
\* medical_views.py:239: the record with this id that belongs to the requester
OwnRecords(user, record_id) ==
    {i \in DOMAIN records : records[i].id = record_id /\ records[i].patient = user}

\* faulty variant of VerifiedFlag: a record once verified stays verified
VerifiedFlag_Sticky(old, is_valid) == old \/ is_valid

\* medical_views.py:252: the verified flag after a verification
VerifiedFlag(old, is_valid) == is_valid

\* faulty variant of VerifiedRecord: the status follows the verification
VerifiedRecord_Restatus(rec, is_valid) ==
    [rec EXCEPT !.is_verified = VerifiedFlag(@, is_valid),
                !.status = IF is_valid THEN "CONFIRMED" ELSE "FAILED"]

\* medical_views.py:252-253: the row record.save() writes back
VerifiedRecord(rec, is_valid) ==
    [rec EXCEPT !.is_verified = VerifiedFlag(@, is_valid)]

\* faulty variant of PresentedHash: the stored fingerprint is sent to the
\* ledger instead of the fingerprint of the file as it is now
PresentedHash_Stored(rec) == rec.document_hash

\* medical_views.py:242: the fingerprint of the record's file as stored now
PresentedHash(rec) == Fingerprint(rec.document_file)

\* medical_views.py:275-278: the status a completed verification is answered with
VerifyStatus(is_valid) == 200

\* faulty variant of VerifyRowStatus: every verification is stored as SUCCESS
VerifyRowStatus_Success(is_valid) == "SUCCESS"

\* medical_views.py:262: the status of the BlockchainTransaction row
VerifyRowStatus(is_valid) == IF is_valid THEN "SUCCESS" ELSE "FAILED"

\* medical_views.py:239-278: hashed, verified on the ledger, flag updated, 200
VerifyRecord(user, record_id) ==
    /\ user \in Subjects
    /\ record_id \in 1..MaxRecords
    /\ OwnRecords(user, record_id) # {}
    /\ Len(ledger) < MaxLedger
    /\ LET i == CHOOSE j \in OwnRecords(user, record_id) : TRUE
           rec == records[i]
           document_hash == PresentedHash(rec)
           is_valid == VerifyIsValid(rec.document_id, document_hash)
           tx == VerifyTx(user, rec.document_id, document_hash)
       IN
       /\ DocumentRegistered(rec.document_id)
       /\ ledger' = Append(ledger, tx)
       /\ records' = [records EXCEPT ![i] = VerifiedRecord(@, is_valid)]
       /\ transactions' = Append(transactions,
             TransactionRow(user, "VERIFY", tx, VerifyRowStatus(is_valid)))
       /\ audit_log' = Append(audit_log,
             AuditEntry(user, "VERIFY_RECORD", "MEDICAL_RECORD", rec.id, FALSE))
       /\ resp' = [op |-> "verify", status |-> VerifyStatus(is_valid),
                   kind |-> "result", is_valid |-> is_valid,
                   document_id |-> rec.document_id,
                   bytes |-> rec.document_file, record |-> rec.id]
    /\ UNCHANGED <<now, failed_login_attempts, last_failed_login, is_active,
                   phone_encrypted>>
    /\ UNCHANGED <<history_vars, race_vars, store_vars>>

\* medical_views.py:266-273, 282-285: AuditLog.objects.create raises inside
\* log_action.  The VERIFY transaction, the flag and the
\* BlockchainTransaction row are already written and stay; the generic
\* except clause answers 500.
VerifyAuditFailed(user, record_id) ==
    /\ user \in Subjects
    /\ record_id \in 1..MaxRecords
    /\ OwnRecords(user, record_id) # {}
    /\ Len(ledger) < MaxLedger
    /\ LET i == CHOOSE j \in OwnRecords(user, record_id) : TRUE
           rec == records[i]
           document_hash == PresentedHash(rec)
           is_valid == VerifyIsValid(rec.document_id, document_hash)
           tx == VerifyTx(user, rec.document_id, document_hash)
       IN
       /\ DocumentRegistered(rec.document_id)
       /\ ledger' = Append(ledger, tx)
       /\ records' = [records EXCEPT ![i] = VerifiedRecord(@, is_valid)]
       /\ transactions' = Append(transactions,
             TransactionRow(user, "VERIFY", tx, VerifyRowStatus(is_valid)))
       /\ resp' = [op |-> "verify", status |-> 500, kind |-> "error",
                   is_valid |-> is_valid, document_id |-> rec.document_id,
                   bytes |-> rec.document_file, record |-> rec.id]
    /\ UNCHANGED audit_log
    /\ UNCHANGED <<now, failed_login_attempts, last_failed_login, is_active,
                   phone_encrypted>>
    /\ UNCHANGED <<history_vars, race_vars, store_vars>>

\* faulty variant of NotFoundStatus: DoesNotExist falls through to the
\* generic except clause of medical_views.py:282-285
NotFoundStatus_ServerError == 500

\* medical_views.py:280-281: the status MedicalRecord.DoesNotExist is answered with
NotFoundStatus == 404

\* medical_views.py:239, 280-281: no such record of the requester, 404
VerifyNotFound(user, record_id) ==
    /\ user \in Subjects
    /\ record_id \in 1..MaxRecords
    /\ OwnRecords(user, record_id) = {}
    /\ resp' = [op |-> "verify", status |-> NotFoundStatus, kind |-> "not_found",
                is_valid |-> FALSE, document_id |-> "", bytes |-> 0,
                record |-> record_id]
    /\ UNCHANGED <<ledger, records, transactions, audit_log>>
    /\ UNCHANGED <<now, failed_login_attempts, last_failed_login, is_active,
                   phone_encrypted>>
    /\ UNCHANGED <<history_vars, race_vars, store_vars>>

\* the stored file of a record is replaced: the storage layer is not trusted
\* (models.py:57-64, read back by medical_views.py:242)
StoredFileChanged(record_id, bytes) ==
    /\ record_id \in DOMAIN records
    /\ bytes \in FileBytes
    /\ records[record_id].document_file # bytes
    /\ records' = [records EXCEPT ![record_id].document_file = bytes]
    /\ UNCHANGED <<ledger, transactions, audit_log, resp>>
    /\ UNCHANGED <<now, failed_login_attempts, last_failed_login, is_active,
                   phone_encrypted>>
    /\ UNCHANGED <<history_vars, race_vars, store_vars>>

NextLedger ==
    \/ \E u \in Staff, p \in Subjects, b \in FileBytes, d \in DocIds :
          \/ UploadRegistered(u, p, b, d)
          \/ UploadRejected(u, p, b, d)
          \/ UploadLedgerFailed(u, p, b, d)
    \/ \E u \in Subjects, id \in 1..MaxRecords :
          \/ VerifyRecord(u, id)
          \/ VerifyNotFound(u, id)
    \/ \E id \in 1..MaxRecords, b \in FileBytes : StoredFileChanged(id, b)

\* the tables are empty; every user is active
InitLedger ==
    /\ Init
    /\ is_active = [s \in Subjects |-> TRUE]

SpecLedger == InitLedger /\ [][NextLedger]_vars

(***************************************************************************)
(* Properties of register and verify                                       *)
(***************************************************************************)
\* positions of the VERIFY transactions of a document
VerifyTxsIn(chain, document_id) ==
    {i \in DOMAIN chain : /\ chain[i].type = "VERIFY"
                          /\ chain[i].document_id = document_id}

VerifyTxs(document_id) == VerifyTxsIn(ledger, document_id)

\* positions of the records of a document
RecordsOf(document_id) ==
    {i \in DOMAIN records : records[i].document_id = document_id}

LastOf(S) == CHOOSE i \in S : \A j \in S : j <= i

\* C7: from its registration until the first verify call for its document a
\* record has status CONFIRMED and verified flag false, and the verified
\* flag changes only in a step that is a verify call for that record.
C7_UnverifiedUntilVerify ==
    [][/\ \A i \in DOMAIN records' :
            VerifyTxsIn(ledger', records'[i].document_id) = {} =>
                /\ records'[i].status = "CONFIRMED"
                /\ records'[i].is_verified = FALSE
       /\ \A i \in DOMAIN records :
            records'[i].is_verified # records[i].is_verified =>
                \E u \in Subjects : \/ VerifyRecord(u, records[i].id)
                                     \/ VerifyAuditFailed(u, records[i].id)]_vars

\* C8: a verify call on a registered document is answered 200 whatever the
\* outcome, and is_valid is true exactly when the fingerprint of the bytes
\* presented equals the fingerprint stored at registration.
C8_ValidIffSameFingerprint ==
    (resp.op = "verify" /\ resp.kind = "result") =>
        /\ resp.status = 200
        /\ resp.is_valid <=>
              \A i \in RecordsOf(resp.document_id) :
                  Fingerprint(resp.bytes) = records[i].document_hash

\* a verify call that found the file changed, answered 200 with is_valid false
C8_Witness ==
    /\ resp.op = "verify" /\ resp.kind = "result"
    /\ resp.status = 200 /\ ~resp.is_valid
    /\ \E i \in RecordsOf(resp.document_id) :
          Fingerprint(resp.bytes) # records[i].document_hash

\* C9: the verified flag of a record that has been verified equals the
\* outcome of the most recent verify call for it.
C9_FlagIsLastResult ==
    \A i \in DOMAIN records :
        LET v == VerifyTxs(records[i].document_id) IN
        v # {} => (records[i].is_verified <=> ledger[LastOf(v)].status = "SUCCESS")

\* a record verified with its original bytes, then with modified bytes, then
\* with the original bytes again: the flag is true again
C9_Witness ==
    \E i \in DOMAIN records :
        LET v == VerifyTxs(records[i].document_id) IN
        /\ records[i].is_verified
        /\ \E a, b, c \in v :
              /\ a < b /\ b < c /\ c = LastOf(v)
              /\ ledger[a].status = "SUCCESS"
              /\ ledger[b].status = "FAILED"
              /\ ledger[c].status = "SUCCESS"

\* C10: a document identifier has at most one REGISTER transaction and at
\* most one record, and an upload under an identifier already registered is
\* answered with DuplicateDocumentError and writes no transaction, block or
\* record.
C10_RegisterOnce ==
    [][/\ \A d \in DocIds :
            /\ Cardinality(RegisterTxs(d))' <= 1
            /\ Cardinality(RecordsOf(d))' <= 1
       /\ \A u \in Staff, p \in Subjects, b \in FileBytes, d \in DocIds :
            (RegisterTxs(d) # {} /\ (UploadRegistered(u, p, b, d) \/ UploadRejected(u, p, b, d)))
            => /\ resp'.kind = "DuplicateDocumentError"
               /\ UNCHANGED <<ledger, records, transactions>>]_vars

\* a second upload under a registered identifier, refused
C10_Witness ==
    /\ resp.op = "upload" /\ resp.kind = "DuplicateDocumentError"
    /\ Cardinality(RegisterTxs(resp.document_id)) = 1
    /\ Cardinality(RecordsOf(resp.document_id)) = 1

(***************************************************************************)
(* DownloadMedicalRecordView.get, blockchain/medical_views.py:361-390      *)
(***************************************************************************)
\* positions of the record with this id
RecordsWithId(record_id) ==
    {i \in DOMAIN records : records[i].id = record_id}

\* faulty variant of NotOwnRecord: the owner is not looked at
NotOwnRecord_Never(user, rec) == FALSE

\* medical_views.py:368: a patient asks for a record of somebody else
NotOwnRecord(user, rec) == user \in Subjects /\ rec.patient # user

DownloadInputs(user, record_id) ==
    /\ user \in Subjects \cup Staff
    /\ record_id \in 1..MaxRecords

\* medical_views.py:362: get_object_or_404 finds no record, 404
DownloadNotFound(user, record_id) ==
    /\ DownloadInputs(user, record_id)
    /\ RecordsWithId(record_id) = {}
    /\ resp' = [op |-> "download", status |-> 404, kind |-> "not_found",
                user |-> user, record |-> record_id, bytes |-> 0]
    /\ UNCHANGED <<ledger, records, transactions, audit_log>>
    /\ UNCHANGED <<now, failed_login_attempts, last_failed_login, is_active,
                   phone_encrypted>>
    /\ UNCHANGED <<history_vars, race_vars, store_vars>>

\* medical_views.py:368-371: a patient and not the owner, 403, nothing logged
DownloadForbidden(user, record_id) ==
    /\ DownloadInputs(user, record_id)
    /\ RecordsWithId(record_id) # {}
    /\ LET rec == records[CHOOSE i \in RecordsWithId(record_id) : TRUE] IN
       /\ NotOwnRecord(user, rec)
       /\ resp' = [op |-> "download", status |-> 403, kind |-> "forbidden",
                   user |-> user, record |-> record_id, bytes |-> 0]
    /\ UNCHANGED <<ledger, records, transactions, audit_log>>
    /\ UNCHANGED <<now, failed_login_attempts, last_failed_login, is_active,
                   phone_encrypted>>
    /\ UNCHANGED <<history_vars, race_vars, store_vars>>

\* medical_views.py:373-388: the download is logged, then the file is served
DownloadRecord(user, record_id) ==
    /\ DownloadInputs(user, record_id)
    /\ RecordsWithId(record_id) # {}
    /\ Len(audit_log) < MaxAudit
    /\ LET rec == records[CHOOSE i \in RecordsWithId(record_id) : TRUE] IN
       /\ ~NotOwnRecord(user, rec)
       /\ audit_log' = Append(audit_log,
             AuditEntry(user, "DOWNLOAD_RECORD", "MEDICAL_RECORD", rec.id, TRUE))
       /\ resp' = [op |-> "download", status |-> 200, kind |-> "file",
                   user |-> user, record |-> record_id,
                   bytes |-> rec.document_file]
    /\ UNCHANGED <<ledger, records, transactions>>
    /\ UNCHANGED <<now, failed_login_attempts, last_failed_login, is_active,
                   phone_encrypted>>
    /\ UNCHANGED <<history_vars, race_vars, store_vars>>

\* medical_views.py:374-382: AuditLog.objects.create raises inside
\* log_action; the view has no try block, the exception handler
\* (lifex/exceptions.py:42-53) answers 500 and no file is served
DownloadAuditFailed(user, record_id) ==
    /\ DownloadInputs(user, record_id)
    /\ RecordsWithId(record_id) # {}
    /\ LET rec == records[CHOOSE i \in RecordsWithId(record_id) : TRUE] IN
       /\ ~NotOwnRecord(user, rec)
       /\ resp' = [op |-> "download", status |-> 500, kind |-> "error",
                   user |-> user, record |-> record_id, bytes |-> 0]
    /\ UNCHANGED <<ledger, records, transactions, audit_log>>
    /\ UNCHANGED <<now, failed_login_attempts, last_failed_login, is_active,
                   phone_encrypted>>
    /\ UNCHANGED <<history_vars, race_vars, store_vars>>

(***************************************************************************)
(* The operations when the audit table cannot be written                   *)
(***************************************************************************)
\* users/views.py:186-208: the failure that takes the counter to the
\* threshold is saved (views.py:189), then AuditLog.objects.create raises
\* (views.py:201-208); nothing catches it and the exception handler
\* (lifex/exceptions.py:42-53) answers 500
LockoutAuditFailed(ident, s, password_ok) ==
    LET tu == TempUser(ident, s)
        base == AfterExpiry(tu)
        n == IF tu = NoUser THEN 0 ELSE BumpFailed(base[tu])
    IN
    /\ LoginInputs(ident, s)
    /\ password_ok \in BOOLEAN
    /\ tu # NoUser
    /\ ~IsLocked(tu)
    /\ Authenticate(s, password_ok, FALSE) = NoUser
    /\ JustLocked(n)
    /\ failed_login_attempts' = [base EXCEPT ![tu] = n]
    /\ last_failed_login' = [last_failed_login EXCEPT ![tu] = now]
    /\ resp' = LoginResponse(s, 500, "error", FALSE)
    /\ streak' = [streak EXCEPT ![s] =
            IF @ > 0 /\ now - prev_failure[s] < LOCKOUT_SECONDS
            THEN Min(@ + 1, LOCKOUT_THRESHOLD) ELSE 1]
    /\ prev_failure' = [prev_failure EXCEPT ![s] = now]
    /\ UNCHANGED <<now, is_active, phone_encrypted, audit_log>>
    /\ UNCHANGED <<race_vars, ledger_vars, store_vars>>

FaultLoginSubjects == {"u1"}
\* the users that log in while the audit table may fail

\* every user is active; the users that log in have failed four logins
InitFault ==
    /\ now = 0
    /\ failed_login_attempts =
          [s \in Subjects |-> IF s \in FaultLoginSubjects
                              THEN LOCKOUT_THRESHOLD - 1 ELSE 0]
    /\ last_failed_login =
          [s \in Subjects |-> IF failed_login_attempts[s] = 0 THEN NoTime ELSE 0]
    /\ is_active = [s \in Subjects |-> TRUE]
    /\ phone_encrypted = [s \in Subjects |-> s \in EncryptedPhoneUsers]
    /\ audit_log = <<>>
    /\ resp = NoResponse
    /\ streak = [s \in Subjects |-> 0]
    /\ prev_failure = [s \in Subjects |-> NoTime]
    /\ reqs = [r \in Requests |-> IdleRequest]
    /\ start_attempts = failed_login_attempts
    /\ ledger = <<>>
    /\ records = <<>>
    /\ transactions = <<>>
    /\ users = Subjects \cup Staff
    /\ vault = {}
    /\ staff_accounts = [s \in ProvisionIds |-> NoAccount]
    /\ invitations = {}

FaultPatients == {"u1"}
\* the patients records are uploaded for while the audit table may fail

NextFault ==
    \/ \E u \in Staff, p \in FaultPatients, b \in {1}, d \in DocIds :
          \/ UploadRegistered(u, p, b, d)
          \/ UploadAuditFailed(u, p, b, d)
    \/ \E u \in Subjects, id \in 1..MaxRecords :
          \/ VerifyRecord(u, id)
          \/ VerifyAuditFailed(u, id)
    \/ \E u \in Subjects \cup Staff, id \in 1..MaxRecords :
          \/ DownloadRecord(u, id)
          \/ DownloadAuditFailed(u, id)
          \/ DownloadForbidden(u, id)
          \/ DownloadNotFound(u, id)
    \/ \E ident \in {"email", "phone"}, s \in FaultLoginSubjects, ok \in BOOLEAN :
          \/ LoginFailed(ident, s, ok)
          \/ LockoutAuditFailed(ident, s, ok)
          \/ LoginRefused(ident, s)

SpecFault == InitFault /\ [][NextFault]_vars

(***************************************************************************)
(* EncryptionManager, blockchain/encryption.py                             *)
(***************************************************************************)
\* encryption.py:12-25, 61: the key of the singleton, fixed at import
ProcessKey == "k1"

\* UTF-8 of one character
Utf8(c) ==
    CASE c = "a" -> <<97>>
      [] c = "g" -> <<103>>
      [] c = "A" -> <<65>>
      [] c = "\n" -> <<10>>
      [] c = "e'" -> <<195, 169>>

\* str.encode() (encryption.py:36, 50)
RECURSIVE Utf8Encode(_)
Utf8Encode(chars) ==
    IF chars = <<>> THEN <<>>
    ELSE Utf8(Head(chars)) \o Utf8Encode(Tail(chars))

\* bytes.decode() (encryption.py:39, 54): the text, or ok = FALSE where
\* Python raises UnicodeDecodeError
RECURSIVE Utf8Decode(_)
Utf8Decode(bytes) ==
    IF bytes = <<>> THEN [ok |-> TRUE, chars |-> <<>>]
    ELSE LET b == Head(bytes)
             one == IF b = 97 THEN "a" ELSE IF b = 103 THEN "g"
                    ELSE IF b = 65 THEN "A" ELSE IF b = 10 THEN "\n" ELSE ""
         IN
         IF one # ""
         THEN LET rest == Utf8Decode(Tail(bytes)) IN
              [ok |-> rest.ok, chars |-> <<one>> \o rest.chars]
         ELSE IF b = 195 /\ Len(bytes) >= 2 /\ bytes[2] = 169
         THEN LET rest == Utf8Decode(Tail(Tail(bytes))) IN
              [ok |-> rest.ok, chars |-> <<"e'">> \o rest.chars]
         ELSE [ok |-> FALSE, chars |-> <<>>]

\* Fernet(key).encrypt(data): a token that carries the data, authenticated
\* under the key, with a fresh random part
FernetEncrypt(key, iv, data) ==
    [key |-> key, iv |-> iv, body |-> data, intact |-> TRUE]

\* Fernet(key).decrypt(token): the data, or ok = FALSE where the library
\* raises InvalidToken: the bytes are no token, the token was cut or
\* altered, or it was made under another key
FernetDecrypt(key, value) ==
    IF value.kind = "token_str" /\ value.token.intact /\ value.token.key = key
    THEN [ok |-> TRUE, data |-> value.token.body]
    ELSE [ok |-> FALSE, data |-> <<>>]

\* faulty variant of PlainBytes: the text is stripped before it is encoded
PlainBytes_Stripped(chars) ==
    Utf8Encode(IF chars # <<>> /\ chars[Len(chars)] = "\n"
               THEN SubSeq(chars, 1, Len(chars) - 1) ELSE chars)

\* encryption.py:35-36: the bytes handed to Fernet
PlainBytes(chars) == Utf8Encode(chars)

\* encryption.py:27-39: EncryptionManager.encrypt
EncryptValue(data, iv) ==
    IF data = Null THEN Null
    ELSE TokenStr(FernetEncrypt(ProcessKey, iv, PlainBytes(data.chars)))

\* faulty variant of OnDecryptError: the exception is passed on
OnDecryptError_Reraise == [raised |-> TRUE, value |-> Null]

\* encryption.py:55-58: the except clause returns None
OnDecryptError == [raised |-> FALSE, value |-> Null]

\* encryption.py:41-58: EncryptionManager.decrypt, as what the caller gets:
\* a value, or an exception (raised)
DecryptValue(encrypted_data) ==
    IF encrypted_data = Null THEN [raised |-> FALSE, value |-> Null]
    ELSE LET opened == FernetDecrypt(ProcessKey, encrypted_data)
             text == Utf8Decode(opened.data)
         IN IF opened.ok /\ text.ok
            THEN [raised |-> FALSE, value |-> Str(text.chars)]
            ELSE OnDecryptError

\* the ciphertexts encrypt has returned so far
VaultTokens == {e.ciphertext : e \in vault}

\* values that are no ciphertext of this process: text stored before
\* encryption was introduced, tokens made under another key, tokens cut short
ForeignValues ==
    {Str(t) : t \in Texts}
      \cup {TokenStr(FernetEncrypt(k, iv, PlainBytes(t))) :
                k \in Keys \ {ProcessKey}, iv \in IVs, t \in Texts}
      \cup {TokenStr([FernetEncrypt(ProcessKey, iv, PlainBytes(t))
                         EXCEPT !.intact = FALSE]) : iv \in IVs, t \in Texts}

\* a call of encryption_manager.encrypt; the vault keeps what was encrypted
\* next to what came back
Encrypt(data, iv) ==
    /\ data \in {Null} \cup {Str(t) : t \in Texts}
    /\ iv \in IVs
    /\ LET out == EncryptValue(data, iv) IN
       /\ resp' = [op |-> "encrypt", input |-> data, output |-> out,
                   raised |-> FALSE]
       /\ vault' = IF data = Null \/ Cardinality(vault) >= MaxVault
                   THEN vault
                   ELSE vault \cup {[plaintext |-> data, ciphertext |-> out]}
    /\ UNCHANGED <<users, staff_accounts, invitations>>
    /\ UNCHANGED <<now, failed_login_attempts, last_failed_login, is_active,
                   phone_encrypted, audit_log>>
    /\ UNCHANGED <<history_vars, race_vars, ledger_vars>>

\* a call of encryption_manager.decrypt
Decrypt(encrypted_data) ==
    /\ encrypted_data \in {Null} \cup VaultTokens \cup ForeignValues
    /\ LET out == DecryptValue(encrypted_data) IN
       resp' = [op |-> "decrypt", input |-> encrypted_data,
                output |-> out.value, raised |-> out.raised]
    /\ UNCHANGED store_vars
    /\ UNCHANGED <<now, failed_login_attempts, last_failed_login, is_active,
                   phone_encrypted, audit_log>>
    /\ UNCHANGED <<history_vars, race_vars, ledger_vars>>

NextCipher ==
    \/ \E data \in {Null} \cup {Str(t) : t \in Texts}, iv \in IVs :
          Encrypt(data, iv)
    \/ \E c \in {Null} \cup VaultTokens \cup ForeignValues : Decrypt(c)

SpecCipher == Init /\ [][NextCipher]_vars

\* C18: every ciphertext encrypt has returned for a text decrypts to that
\* text, whatever calls came in between, and a decrypt call on such a
\* ciphertext returns it.
C18_RoundTrip ==
    /\ \A e \in vault :
          /\ ~DecryptValue(e.ciphertext).raised
          /\ DecryptValue(e.ciphertext).value = e.plaintext
    /\ (resp.op = "decrypt" /\ resp.input \in VaultTokens) =>
          \E e \in vault : e.ciphertext = resp.input /\ resp.output = e.plaintext

\* the multi-line text encrypted twice into different ciphertexts, one of
\* them just decrypted
C18_Witness ==
    /\ resp.op = "decrypt"
    /\ \E e1, e2 \in vault :
          /\ e1.plaintext = e2.plaintext
          /\ e1.ciphertext # e2.ciphertext
          /\ Len(e1.plaintext.chars) > 1
          /\ resp.input = e1.ciphertext
          /\ resp.output = e1.plaintext

\* C19: decrypt never raises; it returns null for null, for text that is
\* no ciphertext, for a token cut short and for a token made under another
\* key, and returns a text only for a ciphertext encrypt produced under
\* the process key, namely the text that was encrypted.
C19_DecryptNeverRaises ==
    resp.op = "decrypt" =>
        /\ ~resp.raised
        /\ resp.input = Null => resp.output = Null
        /\ resp.input \in ForeignValues => resp.output = Null
        /\ resp.output # Null =>
              \E iv \in IVs :
                 resp.input = EncryptValue(resp.output, iv)

\* a token made under another key, answered with null
C19_Witness ==
    /\ resp.op = "decrypt"
    /\ resp.input.kind = "token_str"
    /\ resp.input.token.key # ProcessKey
    /\ resp.output = Null /\ ~resp.raised

(***************************************************************************)
(* The audit trail and the interfaces that reach the stored rows:          *)
(* AuditLog (blockchain/models.py:208-248), AuditMiddleware                *)
(* (lifex/middleware.py), AuditLogView (medical_views.py:335-343),         *)
(* UserAdminView (users/views.py:21-28), the admin site                    *)
(* (blockchain/admin.py) and the encrypt_legacy_records command            *)
(***************************************************************************)
\* models.py:212-222: the action tags the AuditLog model declares
ACTION_CHOICES ==
    {"LOGIN", "LOGOUT", "REGISTER_PATIENT", "APPROVE_PATIENT", "REJECT_PATIENT",
     "UPLOAD_RECORD", "VIEW_RECORDS", "DOWNLOAD_RECORD", "VERIFY_RECORD"}

\* middleware.py:20-25
action_map ==
    [POST |-> "CREATE", PUT |-> "UPDATE", PATCH |-> "PARTIAL_UPDATE",
     DELETE |-> "DELETE"]

\* str.upper() on the path segments that occur
Upper == [blockchain |-> "BLOCKCHAIN", auth |-> "AUTH", general |-> "GENERAL"]

\* request paths, as their non-empty segments (middleware.py:30)
RequestPaths ==
    {<<"api", "blockchain", "staff", "register-patient">>,
     <<"api", "auth", "logout">>}

\* middleware.py:16: '/api/auth/' in path
IsAuthPath(parts) ==
    \E i \in 1..(Len(parts) - 1) : parts[i] = "api" /\ parts[i + 1] = "auth"

\* middleware.py:31-32
ResourceType(parts) == IF Len(parts) > 1 THEN parts[2] ELSE "general"

ResourceId(parts) == IF Len(parts) > 2 THEN parts[3] ELSE ""

\* middleware.py:37: the action tag of the row
MiddlewareAction(method, parts) ==
    action_map[method] \o "_" \o Upper[ResourceType(parts)]

\* middleware.py:9-47: process_response for a modifying request of an
\* authenticated user outside /api/auth/ writes a row; the response passes
\* through
AuditMiddlewareResponse(user, method, parts) ==
    /\ user \in users
    /\ method \in DOMAIN action_map
    /\ parts \in RequestPaths
    /\ ~IsAuthPath(parts)
    /\ Len(audit_log) < MaxAudit
    /\ audit_log' = Append(audit_log,
          AuditEntry(user, MiddlewareAction(method, parts),
                     ResourceType(parts), ResourceId(parts), FALSE))
    /\ UNCHANGED <<ledger, records, transactions, resp>>
    /\ UNCHANGED <<now, failed_login_attempts, last_failed_login, is_active,
                   phone_encrypted>>
    /\ UNCHANGED <<history_vars, race_vars, store_vars>>

\* faulty variant of OrderingKey: oldest first
OrderingKey_Ascending(entry) == entry.created_at

\* medical_views.py:340, models.py:240: ordering = ['-created_at']
OrderingKey(entry) == 0 - entry.created_at

\* the orders ORDER BY may return the rows in: ascending in the key, rows
\* with equal keys in any order
OrderedListings(rows) ==
    LET n == Len(rows)
        perms == {f \in [1..n -> 1..n] : \A i, j \in 1..n : i # j => f[i] # f[j]}
    IN {[i \in 1..n |-> rows[f[i]]] : f \in
            {g \in perms : \A i, j \in 1..n :
                i < j => OrderingKey(rows[g[i]]) <= OrderingKey(rows[g[j]])}}

\* medical_views.py:335-343: an admin lists the audit log
ListAudit(admin) ==
    /\ admin \in Admins
    /\ \E listing \in OrderedListings(audit_log) :
          resp' = [op |-> "listAudit", status |-> 200, entries |-> listing]
    /\ UNCHANGED <<ledger, records, transactions, audit_log>>
    /\ UNCHANGED <<now, failed_login_attempts, last_failed_login, is_active,
                   phone_encrypted>>
    /\ UNCHANGED <<history_vars, race_vars, store_vars>>

\* SelectSeq for rows that refer to a user
RowsKept(rows, dropped) ==
    LET keep(i) == rows[i] \notin dropped
        F[i \in 0..Len(rows)] ==
            IF i = 0 THEN <<>>
            ELSE IF keep(i) THEN Append(F[i - 1], rows[i]) ELSE F[i - 1]
    IN F[Len(rows)]

\* users/views.py:21-28: DELETE on UserAdminView deletes the user row.
\* on_delete decides what becomes of the rows that refer to it: records of
\* the patient and transaction rows of the user are deleted (models.py:33,
\* 175, CASCADE); uploaded_by and the actor of audit rows become NULL
\* (models.py:41, 226, SET_NULL).
DeleteUser(admin, target) ==
    /\ admin \in Admins
    /\ target \in users
    /\ users' = users \ {target}
    /\ records' =
          LET kept == RowsKept(records, {r \in {records[i] : i \in DOMAIN records} :
                                          r.patient = target})
          IN [i \in DOMAIN kept |->
                IF kept[i].uploaded_by = target
                THEN [kept[i] EXCEPT !.uploaded_by = NoUser] ELSE kept[i]]
    /\ transactions' =
          RowsKept(transactions, {t \in {transactions[i] : i \in DOMAIN transactions} :
                                    t.user = target})
    /\ audit_log' =
          [i \in DOMAIN audit_log |->
             IF audit_log[i].user = target
             THEN [audit_log[i] EXCEPT !.user = NoUser] ELSE audit_log[i]]
    /\ resp' = [op |-> "delete_user", status |-> 204, user |-> target]
    /\ UNCHANGED <<ledger, vault, staff_accounts, invitations>>
    /\ UNCHANGED <<now, failed_login_attempts, last_failed_login, is_active,
                   phone_encrypted>>
    /\ UNCHANGED <<history_vars, race_vars>>

\* blockchain/admin.py:107-142: BlockchainTransactionAdmin makes every field
\* read-only but keeps ModelAdmin's delete permission: the admin site
\* deletes a transaction row
AdminDeleteTransaction(admin, k) ==
    /\ admin \in Admins
    /\ k \in DOMAIN transactions
    /\ transactions' = [i \in 1..(Len(transactions) - 1) |->
                          IF i < k THEN transactions[i] ELSE transactions[i + 1]]
    /\ resp' = [op |-> "admin_delete_transaction", status |-> 302, row |-> k]
    /\ UNCHANGED <<ledger, records, audit_log>>
    /\ UNCHANGED <<now, failed_login_attempts, last_failed_login, is_active,
                   phone_encrypted>>
    /\ UNCHANGED <<history_vars, race_vars, store_vars>>

\* the first characters of the base64 text of every Fernet token: the
\* version byte and the high bytes of the timestamp
TokenPrefix == <<"g", "A", "A", "A", "A", "A">>

\* str.startswith('gAAAAA') (encrypt_legacy_records.py:21, 25)
StartsWithTokenPrefix(value) ==
    \/ value.kind = "token_str"
    \/ /\ value.kind = "str"
       /\ Len(value.chars) >= Len(TokenPrefix)
       /\ SubSeq(value.chars, 1, Len(TokenPrefix)) = TokenPrefix

\* truth value of a str: not empty
Truthy(value) == ~(value.kind = "str" /\ value.chars = <<>>)

\* encrypt_legacy_records.py:21-22, 25-26: the column after the backfill
BackfillField(value, iv) ==
    IF Truthy(value) /\ ~StartsWithTokenPrefix(value)
    THEN EncryptValue(value, iv) ELSE value

\* encrypt_legacy_records.py:12-37: the description and the department of
\* the records not yet marked encrypted are encrypted unless they look
\* encrypted, the records are marked, and so are the UPLOAD_RECORD audit
\* rows not yet marked
EncryptLegacyRecords ==
    LET legacy_records == {i \in DOMAIN records : ~records[i].is_encrypted}
        legacy_logs == {i \in DOMAIN audit_log :
                          /\ ~audit_log[i].is_encrypted
                          /\ audit_log[i].action = "UPLOAD_RECORD"}
    IN
    /\ \E iv \in [legacy_records -> IVs \X IVs] :
          records' = [i \in DOMAIN records |->
                        IF i \in legacy_records
                        THEN [records[i] EXCEPT
                                 !.description = BackfillField(@, iv[i][1]),
                                 !.department = BackfillField(@, iv[i][2]),
                                 !.is_encrypted = TRUE]
                        ELSE records[i]]
    /\ audit_log' = [i \in DOMAIN audit_log |->
                       IF i \in legacy_logs
                       THEN [audit_log[i] EXCEPT !.is_encrypted = TRUE]
                       ELSE audit_log[i]]
    /\ resp' = [op |-> "encrypt_legacy_records", status |-> 0,
                record_count |-> Cardinality(legacy_records),
                log_count |-> Cardinality(legacy_logs)]
    /\ UNCHANGED <<ledger, transactions>>
    /\ UNCHANGED <<now, failed_login_attempts, last_failed_login, is_active,
                   phone_encrypted>>
    /\ UNCHANGED <<history_vars, race_vars, store_vars>>

\* no user has been deleted: the row ids of the model are positions, so
\* rows are inserted before rows are deleted
NoneDeleted == users = Subjects \cup Staff

TrailMethods == {"POST", "DELETE"}
\* methods of the requests that pass the middleware

TrailPatients == {"u1"}
\* the patients whose records are uploaded, verified and downloaded

NextTrail ==
    \/ Tick
    \/ \E u \in Staff, p \in TrailPatients, b \in {1}, d \in DocIds :
          /\ NoneDeleted
          /\ Len(audit_log) < MaxAudit
          /\ UploadRegistered(u, p, b, d)
    \/ \E u \in TrailPatients, id \in 1..MaxRecords :
          /\ u \in users
          /\ Len(audit_log) < MaxAudit
          /\ VerifyRecord(u, id)
    \/ \E u \in TrailPatients, id \in 1..MaxRecords :
          /\ u \in users
          /\ DownloadRecord(u, id)
    \/ \E s \in FaultLoginSubjects :
          /\ s \in users
          /\ LoginFailed("email", s, FALSE)
    \/ \E u \in Staff, method \in TrailMethods, parts \in RequestPaths :
          AuditMiddlewareResponse(u, method, parts)
    \/ \E a \in Admins : ListAudit(a)
    \/ \E a \in Admins, u \in TrailPatients : DeleteUser(a, u)
    \/ \E a \in Admins, k \in {1} : AdminDeleteTransaction(a, k)
    \/ EncryptLegacyRecords

SpecTrail == InitFault /\ [][NextTrail]_vars

(***************************************************************************)
(* The backfill over records stored before encryption was introduced       *)
(***************************************************************************)
LegacyTexts == {<<>>, <<"a">>, <<"g", "A", "A", "A", "A", "A", "a">>}
\* what a legacy record may hold as description or department: nothing, a
\* word, a text that begins with the characters gAAAAA

LegacyDocIds == <<"d1", "d2">>
\* the document identifiers of the legacy records

LegacyPatient == "u1"
\* the patient of the legacy records

\* a record uploaded before encryption was introduced: its columns hold
\* what was typed and it is not marked encrypted
LegacyRecord(i, description, department) ==
    [id |-> i, patient |-> LegacyPatient, uploaded_by |-> "n1",
     document_file |-> 1, document_id |-> LegacyDocIds[i],
     document_hash |-> Fingerprint(1),
     blockchain_address |-> AddressFor(LegacyPatient),
     transaction_hash |-> i, block_number |-> i,
     status |-> "CONFIRMED", is_verified |-> UploadVerifiedFlag,
     is_encrypted |-> FALSE,
     description |-> Str(description), department |-> Str(department)]

\* the tables after the uploads of the legacy records
InitBackfill ==
    /\ now = 0
    /\ failed_login_attempts = [s \in Subjects |-> 0]
    /\ last_failed_login = [s \in Subjects |-> NoTime]
    /\ is_active = [s \in Subjects |-> TRUE]
    /\ phone_encrypted = [s \in Subjects |-> s \in EncryptedPhoneUsers]
    /\ resp = NoResponse
    /\ streak = [s \in Subjects |-> 0]
    /\ prev_failure = [s \in Subjects |-> NoTime]
    /\ reqs = [r \in Requests |-> IdleRequest]
    /\ start_attempts = failed_login_attempts
    /\ users = Subjects \cup Staff
    /\ vault = {}
    /\ staff_accounts = [s \in ProvisionIds |-> NoAccount]
    /\ invitations = {}
    /\ \E n \in 1..Len(LegacyDocIds) :
          \E f \in [1..n -> LegacyTexts \X LegacyTexts] :
             records = [i \in 1..n |-> LegacyRecord(i, f[i][1], f[i][2])]
    /\ ledger = [i \in DOMAIN records |->
                   [type |-> "REGISTER", address |-> AddressFor(LegacyPatient),
                    document_id |-> records[i].document_id,
                    document_hash |-> records[i].document_hash,
                    status |-> "SUCCESS", transaction_hash |-> i,
                    block_number |-> i, gas_used |-> GasFor(i)]]
    /\ transactions = [i \in DOMAIN records |->
                         TransactionRow(LegacyPatient, "REGISTER", ledger[i], "SUCCESS")]
    /\ audit_log = [i \in DOMAIN records |->
                      AuditEntry("n1", "UPLOAD_RECORD", "MEDICAL_RECORD", i, FALSE)]

NextBackfill ==
    \/ EncryptLegacyRecords
    \/ \E u \in {LegacyPatient}, id \in 1..MaxRecords : VerifyRecord(u, id)

SpecBackfill == InitBackfill /\ [][NextBackfill]_vars

\* C24: after the backfill every record it has marked encrypted holds, for
\* a description or department that was not blank, a ciphertext that
\* decrypts to the text the record held before, whatever that text was.
C24_FlagAloneTellsEncrypted ==
    [][EncryptLegacyRecords =>
         \A i \in DOMAIN records :
            (~records[i].is_encrypted /\ records'[i].is_encrypted) =>
               /\ Truthy(records[i].description) =>
                    DecryptValue(records'[i].description).value
                       = records[i].description
               /\ Truthy(records[i].department) =>
                    DecryptValue(records'[i].department).value
                       = records[i].department]_vars

\* C14: every audit entry, once appended, stays in the table with all its
\* attributes as written; the table only grows.
C14_AuditImmutable ==
    [][/\ Len(audit_log') >= Len(audit_log)
       /\ \A i \in DOMAIN audit_log : audit_log'[i] = audit_log[i]]_vars

\* C15: no step removes a row of the audit table, and a listing of the
\* audit log returns every entry appended so far, each once, the most
\* recently created first.
C15_ListNewestFirst ==
    [][/\ Len(audit_log') >= Len(audit_log)
       /\ \A a \in Admins :
            ListAudit(a) =>
              LET entries == resp'.entries IN
              /\ Len(entries) = Len(audit_log)
              /\ \E f \in [1..Len(entries) -> 1..Len(entries)] :
                    /\ \A i, j \in 1..Len(entries) : i # j => f[i] # f[j]
                    /\ \A i \in 1..Len(entries) : entries[i] = audit_log[f[i]]
              /\ \A i, j \in 1..Len(entries) :
                    i < j => entries[i].created_at >= entries[j].created_at]_vars

\* a listing of entries created at different times, the newer one first
C15_Witness ==
    /\ resp.op = "listAudit"
    /\ Len(resp.entries) >= 2
    /\ resp.entries[1].created_at > resp.entries[2].created_at
    /\ Len(resp.entries) = Len(audit_log)

\* C16: every transaction row, once appended, stays in the table with its
\* hash, type, block number, gas used and status as written; the number of
\* rows never decreases.
C16_TransactionsAppendOnly ==
    [][/\ Len(transactions') >= Len(transactions)
       /\ \A i \in DOMAIN transactions : transactions'[i] = transactions[i]]_vars

\* C20: the action tag of every audit entry is one of ACTION_CHOICES.
C20_ActionInChoices ==
    \A i \in DOMAIN audit_log : audit_log[i].action \in ACTION_CHOICES

(***************************************************************************)
(* Failure behaviour of register and verify                                *)
(***************************************************************************)
\* an upload request that is answered with an error
UploadReportsFailure(u, p, b, d) ==
    \/ UploadRejected(u, p, b, d)
    \/ UploadLedgerFailed(u, p, b, d)
    \/ UploadAuditFailed(u, p, b, d)

\* C11: when an upload of a document that had no record is answered with an
\* error, no record of that document is left in CONFIRMED state: it is
\* FAILED or absent.
C11_NoConfirmedAfterFailure ==
    [][\A u \in Staff, p \in Subjects, b \in FileBytes, d \in DocIds :
          (RecordsOf(d) = {} /\ UploadReportsFailure(u, p, b, d))
          => \A i \in RecordsOf(d)' : records'[i].status # "CONFIRMED"]_vars

\* C12: when the ledger registration step of an upload fails, a record of
\* the document with status FAILED exists afterwards and one audit entry
\* has been appended.
C12_FailedRecordAndAudit ==
    [][\A u \in Staff, p \in Subjects, b \in FileBytes, d \in DocIds :
          (UploadLedgerFailed(u, p, b, d) \/ UploadRejected(u, p, b, d))
          => /\ \E i \in RecordsOf(d)' : records'[i].status = "FAILED"
             /\ Len(audit_log') = Len(audit_log) + 1]_vars

\* a verify request for a record id that no record has
VerifyOfMissing(u, id) ==
    /\ \A i \in DOMAIN records : records[i].id # id
    /\ (VerifyRecord(u, id) \/ VerifyAuditFailed(u, id) \/ VerifyNotFound(u, id))

C13_AuditFailureAbsorbed ==
    [][/\ \A u \in Staff, p \in Subjects, b \in FileBytes, d \in DocIds :
            UploadAuditFailed(u, p, b, d) =>
                /\ resp'.status = 201
                /\ \E i \in RecordsOf(d)' : records'[i].status = "CONFIRMED"
       /\ \A u \in Subjects, id \in 1..MaxRecords :
            VerifyAuditFailed(u, id) =>
                /\ resp'.status = 200
                /\ Len(ledger') = Len(ledger) + 1
       /\ \A u \in Subjects \cup Staff, id \in 1..MaxRecords :
            DownloadAuditFailed(u, id) =>
                /\ resp'.status = 200
                /\ resp'.kind = "file"
       /\ \A ident \in {"email", "phone"}, s \in Subjects, ok \in BOOLEAN :
            LockoutAuditFailed(ident, s, ok) =>
                /\ resp'.status = 401
                /\ failed_login_attempts'[s] = LOCKOUT_THRESHOLD]_vars

(***************************************************************************)
(* What a completed register or verify leaves behind                       *)
(***************************************************************************)
\* C21: a verify call that returns a result appends exactly one transaction
\* row, of type VERIFY, with status SUCCESS if is_valid and FAILED
\* otherwise, carrying the hash, block number and gas of the transaction the
\* ledger appended, and exactly one audit entry, VERIFY_RECORD for the
\* verified record.
C21_VerifyAppendsRows ==
    [][\A u \in Subjects, id \in 1..MaxRecords :
          VerifyRecord(u, id) =>
            LET tx == ledger'[Len(ledger')]
                row == transactions'[Len(transactions')]
                entry == audit_log'[Len(audit_log')]
            IN
            /\ resp'.kind = "result"
            /\ Len(ledger') = Len(ledger) + 1
            /\ tx.type = "VERIFY"
            /\ Len(transactions') = Len(transactions) + 1
            /\ SubSeq(transactions', 1, Len(transactions)) = transactions
            /\ row.transaction_type = "VERIFY"
            /\ row.user = u
            /\ row.status = (IF resp'.is_valid THEN "SUCCESS" ELSE "FAILED")
            /\ row.status = tx.status
            /\ row.transaction_hash = tx.transaction_hash
            /\ row.block_number = tx.block_number
            /\ row.gas_used = tx.gas_used
            /\ Len(audit_log') = Len(audit_log) + 1
            /\ SubSeq(audit_log', 1, Len(audit_log)) = audit_log
            /\ entry.action = "VERIFY_RECORD"
            /\ entry.user = u
            /\ entry.resource_id = id]_vars

\* a verification that found the file changed: the last transaction row is
\* a FAILED VERIFY row and the last audit entry is its VERIFY_RECORD entry
C21_Witness ==
    /\ resp.op = "verify" /\ resp.kind = "result" /\ ~resp.is_valid
    /\ transactions # <<>> /\ audit_log # <<>>
    /\ transactions[Len(transactions)].transaction_type = "VERIFY"
    /\ transactions[Len(transactions)].status = "FAILED"
    /\ transactions[Len(transactions)].transaction_hash = Len(ledger)
    /\ audit_log[Len(audit_log)].action = "VERIFY_RECORD"
    /\ audit_log[Len(audit_log)].resource_id = resp.record

VerifyCall(u, id) ==
    \/ VerifyRecord(u, id)
    \/ VerifyAuditFailed(u, id)
    \/ VerifyNotFound(u, id)

\* C23: a verify call changes nothing of any record but the verified flag
\* of the record verified, and only appends to the ledger, the transaction
\* table and the audit table: status, document identifier, stored
\* fingerprint, subject address, registering transaction hash and block
\* number of every record are as before, whatever the result.
C23_VerifyFrame ==
    [][\A u \in Subjects, id \in 1..MaxRecords :
          VerifyCall(u, id) =>
            /\ DOMAIN records' = DOMAIN records
            /\ \A i \in DOMAIN records :
                  /\ records'[i].status = records[i].status
                  /\ records'[i].document_id = records[i].document_id
                  /\ records'[i].document_hash = records[i].document_hash
                  /\ records'[i].blockchain_address = records[i].blockchain_address
                  /\ records'[i].transaction_hash = records[i].transaction_hash
                  /\ records'[i].block_number = records[i].block_number
                  /\ [records'[i] EXCEPT !.is_verified = records[i].is_verified]
                        = records[i]
                  /\ records[i].id # id => records'[i] = records[i]
            /\ SubSeq(ledger', 1, Len(ledger)) = ledger
            /\ SubSeq(transactions', 1, Len(transactions)) = transactions
            /\ SubSeq(audit_log', 1, Len(audit_log)) = audit_log]_vars

\* a record verified with success and then, its file changed, without: it
\* is still CONFIRMED with the fingerprint of its registration
C23_Witness ==
    /\ resp.op = "verify" /\ resp.kind = "result" /\ ~resp.is_valid
    /\ \E i \in DOMAIN records :
          /\ records[i].id = resp.record
          /\ records[i].status = "CONFIRMED"
          /\ ~records[i].is_verified
          /\ records[i].document_hash # Fingerprint(records[i].document_file)
          /\ \E a \in RegisterTxs(records[i].document_id) :
                /\ ledger[a].document_hash = records[i].document_hash
                /\ ledger[a].transaction_hash = records[i].transaction_hash
          /\ \E v \in VerifyTxs(records[i].document_id) :
                ledger[v].status = "SUCCESS"

(***************************************************************************)
(* Bookkeeping of the login view                                           *)
(***************************************************************************)
\* C25: a failed login for an existing subject, found by email, by stored
\* phone number or by phone-number hash, adds exactly one to the subject's
\* failed counter (counted from 0 when a lockout has just run out) and sets
\* its last-failure timestamp to the time of the attempt; and the user the
\* lockout check looks at is the user the credentials are checked against.
C25_FailureCounted ==
    [][\A ident \in {"email", "phone"}, s \in Subjects :
          /\ \A ok \in BOOLEAN :
                LoginFailed(ident, s, ok) =>
                   /\ failed_login_attempts'[s] =
                         ExpireLockout(failed_login_attempts[s]) + 1
                   /\ last_failed_login'[s] = now
          /\ (LoginSucceeded(ident, s) \/ LoginDisabled(ident, s)
                 \/ \E ok \in BOOLEAN : LoginFailed(ident, s, ok))
               => TempUser(ident, s) = s]_vars

\* one user that may log in and one whose account is disabled
InitUnlock ==
    /\ Init
    /\ is_active = [s \in Subjects |-> s = "u1"]

\* the login view while the wall clock goes on
SpecUnlock == InitUnlock /\ [][NextLogin]_vars /\ WF_vars(Tick)

\* the counter of s is at the threshold and the lockout duration has passed
\* since its last failure
LockoutElapsed(s) ==
    /\ failed_login_attempts[s] >= LOCKOUT_THRESHOLD
    /\ last_failed_login[s] # NoTime
    /\ now - last_failed_login[s] >= LOCKOUT_SECONDS

\* a login request for s with the right password, whatever its outcome
CorrectAttempt(ident, s) ==
    \/ LoginRefused(ident, s)
    \/ LoginFailed(ident, s, TRUE)
    \/ LoginDisabled(ident, s)
    \/ LoginSucceeded(ident, s)

\* C26: a locked subject is unlocked once the lockout duration has passed
\* since its last failure, which happens as time goes on; the next login of
\* an active subject with the right credentials is then answered 200 with
\* tokens and leaves the failed counter at 0.
C26_LockoutTimeBoxed ==
    /\ [](\A s \in Subjects : LockoutElapsed(s) => ~IsLocked(s))
    /\ [][\A ident \in {"email", "phone"}, s \in Subjects :
            (LockoutElapsed(s) /\ is_active[s] /\ CorrectAttempt(ident, s))
            => /\ resp'.kind = "ok" /\ resp'.status = 200 /\ resp'.tokens
               /\ failed_login_attempts'[s] = 0]_vars
    /\ \A s \in Subjects :
          (IsLocked(s) /\ last_failed_login[s] + LOCKOUT_SECONDS <= MaxTime)
             ~> ~IsLocked(s)

\* a login that succeeded on an account whose lockout had run out
C26_Witness ==
    /\ resp.op = "login" /\ resp.kind = "ok"
    /\ resp.attempts_before >= LOCKOUT_THRESHOLD
    /\ ~resp.was_locked
    /\ failed_login_attempts[resp.subject] = 0

\* C27: the failed counter of every subject, as stored and as held by the
\* requests in progress, is between 0 and the lockout threshold.
C27_CounterBounded ==
    /\ \A s \in Subjects :
          failed_login_attempts[s] \in 0..LOCKOUT_THRESHOLD
    /\ \A r \in Requests : reqs[r].attempts \in 0..LOCKOUT_THRESHOLD

\* two failed logins of a subject whose counter was 4 have overlapped and
\* both were answered 401: the counter is 5
C27_Witness ==
    \E s \in Subjects :
       /\ start_attempts[s] = LOCKOUT_THRESHOLD - 1
       /\ Cardinality(FailedRequests(s)) >= 2
       /\ failed_login_attempts[s] = LOCKOUT_THRESHOLD

\* C28: a login request refused because its subject is locked leaves the
\* subject's failed counter and last-failure timestamp as they were and
\* appends no audit entry; and no request handled while a subject is locked
\* moves the end of its lockout.
C28_RefusedChangesNothing ==
    [][/\ \A ident \in {"email", "phone"}, s \in Subjects :
            LoginRefused(ident, s) =>
               /\ resp'.status = 403 /\ resp'.kind = "locked"
               /\ failed_login_attempts'[s] = failed_login_attempts[s]
               /\ last_failed_login'[s] = last_failed_login[s]
               /\ audit_log' = audit_log
       /\ \A s \in Subjects :
            (IsLocked(s) /\ IsLocked(s)') =>
               last_failed_login'[s] = last_failed_login[s]]_vars

\* a request refused some time into a lockout: the last failure recorded
\* is still the one that locked the account
C28_Witness ==
    /\ resp.op = "login" /\ resp.kind = "locked" /\ resp.status = 403
    /\ IsLocked(resp.subject)
    /\ now > last_failed_login[resp.subject]
    /\ failed_login_attempts[resp.subject] = LOCKOUT_THRESHOLD
    /\ LockoutEntries(resp.subject) = 1

(***************************************************************************)
(* Staff provisioning and activation: StaffProvisioningSerializer.create   *)
(* (users/serializers.py:48-67) and StaffActivationView                    *)
(* (users/views.py:56-104)                                                 *)
(***************************************************************************)
\* a StaffInvitation row as the views use it: the token, the user it
\* belongs to, is_claimed, and is_expired
Invitation(token, user) ==
    [token |-> token, user |-> user, is_claimed |-> FALSE, is_expired |-> FALSE]

\* what the request may carry as password: nothing, a password that
\* validate_password rejects, a password it accepts
PostedPasswords == {"", "weak"} \cup Passwords

\* faulty variant of UnclaimedInvites: a claimed invitation is found too
UnclaimedInvites_Any(token) ==
    {i \in invitations : i.token = token}

\* views.py:64, 78: StaffInvitation.objects.get(token=token, is_claimed=False)
UnclaimedInvites(token) ==
    {i \in invitations : i.token = token /\ ~i.is_claimed}

\* serializers.py:48-67, views.py:39-53: the account is created inactive
\* with a random password, and its invitation with a fresh token
ProvisionStaff(admin, s, token) ==
    /\ admin \in Admins
    /\ s \in ProvisionIds \ users
    /\ token \in Tokens
    /\ \A i \in invitations : i.token # token
    /\ users' = users \cup {s}
    /\ staff_accounts' = [staff_accounts EXCEPT
                             ![s] = [is_active |-> FALSE, password |-> "random"]]
    /\ invitations' = invitations \cup {Invitation(token, s)}
    /\ resp' = [op |-> "provision", status |-> 201, kind |-> "created",
                token |-> token, password |-> ""]
    /\ UNCHANGED vault
    /\ UNCHANGED <<now, failed_login_attempts, last_failed_login, is_active,
                   phone_encrypted, audit_log>>
    /\ UNCHANGED <<history_vars, race_vars, ledger_vars>>

\* the lifetime of an invitation runs out: is_expired becomes true
InvitationExpires(token) ==
    /\ \E i \in invitations :
          /\ i.token = token
          /\ ~i.is_expired
          /\ invitations' = (invitations \ {i}) \cup {[i EXCEPT !.is_expired = TRUE]}
    /\ UNCHANGED <<users, vault, staff_accounts, resp>>
    /\ UNCHANGED <<now, failed_login_attempts, last_failed_login, is_active,
                   phone_encrypted, audit_log>>
    /\ UNCHANGED <<history_vars, race_vars, ledger_vars>>

\* views.py:62-74: the invitation is looked up and described
ActivationGet(token) ==
    /\ token \in Tokens \cup {UnknownToken}
    /\ resp' =
          IF UnclaimedInvites(token) = {}
          THEN [op |-> "activation_get", status |-> 404, kind |-> "not_found",
                token |-> token, password |-> ""]
          ELSE LET invite == CHOOSE i \in UnclaimedInvites(token) : TRUE IN
               IF invite.is_expired
               THEN [op |-> "activation_get", status |-> 400, kind |-> "expired",
                     token |-> token, password |-> ""]
               ELSE [op |-> "activation_get", status |-> 200, kind |-> "invite",
                     token |-> token, password |-> ""]
    /\ UNCHANGED store_vars
    /\ UNCHANGED <<now, failed_login_attempts, last_failed_login, is_active,
                   phone_encrypted, audit_log>>
    /\ UNCHANGED <<history_vars, race_vars, ledger_vars>>

\* views.py:76-104: the password is set, the account is activated and the
\* invitation is claimed; 404 without an unclaimed invitation, 400 for an
\* expired one, a missing password or a password that is not accepted
ActivationPost(token, password) ==
    /\ token \in Tokens \cup {UnknownToken}
    /\ password \in PostedPasswords
    /\ IF UnclaimedInvites(token) = {}
       THEN /\ resp' = [op |-> "activation_post", status |-> 404,
                        kind |-> "not_found", token |-> token,
                        password |-> password]
            /\ UNCHANGED <<staff_accounts, invitations>>
       ELSE LET invite == CHOOSE i \in UnclaimedInvites(token) : TRUE IN
            IF invite.is_expired \/ password \notin Passwords
            THEN /\ resp' = [op |-> "activation_post", status |-> 400,
                             kind |-> IF invite.is_expired THEN "expired"
                                      ELSE IF password = "" THEN "password_required"
                                      ELSE "password_invalid",
                             token |-> token, password |-> password]
                 /\ UNCHANGED <<staff_accounts, invitations>>
            ELSE /\ staff_accounts' = [staff_accounts EXCEPT ![invite.user] =
                                         [is_active |-> TRUE, password |-> password]]
                 /\ invitations' = (invitations \ {invite})
                                      \cup {[invite EXCEPT !.is_claimed = TRUE]}
                 /\ resp' = [op |-> "activation_post", status |-> 200,
                             kind |-> "activated", token |-> token,
                             password |-> password]
    /\ UNCHANGED <<users, vault>>
    /\ UNCHANGED <<now, failed_login_attempts, last_failed_login, is_active,
                   phone_encrypted, audit_log>>
    /\ UNCHANGED <<history_vars, race_vars, ledger_vars>>

NextInvite ==
    \/ \E a \in Admins, s \in ProvisionIds, t \in Tokens : ProvisionStaff(a, s, t)
    \/ \E t \in Tokens : InvitationExpires(t)
    \/ \E t \in Tokens \cup {UnknownToken} : ActivationGet(t)
    \/ \E t \in Tokens \cup {UnknownToken}, p \in PostedPasswords :
          ActivationPost(t, p)

SpecInvite == InitLedger /\ [][NextInvite]_vars

\* a GET or a POST of the activation view with this token
ActivationRequest(t) ==
    \/ ActivationGet(t)
    \/ \E p \in PostedPasswords : ActivationPost(t, p)

\* the invitations with this token
InvitesOf(t) == {i \in invitations : i.token = t}

RecordsOfPatient(user) ==
    {records[i] : i \in {j \in DOMAIN records : records[j].patient = user}}

\* medical_views.py:187-196: a patient gets its own records whatever
\* patient_id the path names, staff get the records of patient_id
PatientRecords(user, patient_id) ==
    /\ user \in Subjects \cup Staff
    /\ patient_id \in Subjects
    /\ resp' = [op |-> "patient_records", status |-> 200, user |-> user,
                records |-> IF user \in Subjects THEN RecordsOfPatient(user)
                            ELSE RecordsOfPatient(patient_id)]
    /\ UNCHANGED <<ledger, records, transactions, audit_log>>
    /\ UNCHANGED <<now, failed_login_attempts, last_failed_login, is_active,
                   phone_encrypted>>
    /\ UNCHANGED <<history_vars, race_vars, store_vars>>

\* medical_views.py:201-220: the view is logged, the patient's records are
\* listed
MyMedicalRecords(user) ==
    /\ user \in Subjects
    /\ Len(audit_log) < MaxAudit
    /\ audit_log' = Append(audit_log,
          AuditEntry(user, "VIEW_RECORDS", "MEDICAL_RECORD", "", TRUE))
    /\ resp' = [op |-> "my_records", status |-> 200, user |-> user,
                records |-> RecordsOfPatient(user)]
    /\ UNCHANGED <<ledger, records, transactions>>
    /\ UNCHANGED <<now, failed_login_attempts, last_failed_login, is_active,
                   phone_encrypted>>
    /\ UNCHANGED <<history_vars, race_vars, store_vars>>

\* medical_views.py:223-229: the record with this id among the patient's
\* own, or 404
MyMedicalRecordDetail(user, pk) ==
    /\ user \in Subjects
    /\ pk \in 1..MaxRecords
    /\ LET found == {r \in RecordsOfPatient(user) : r.id = pk} IN
       resp' = IF found = {}
               THEN [op |-> "my_record_detail", status |-> 404, user |-> user,
                     records |-> {}]
               ELSE [op |-> "my_record_detail", status |-> 200, user |-> user,
                     records |-> found]
    /\ UNCHANGED <<ledger, records, transactions, audit_log>>
    /\ UNCHANGED <<now, failed_login_attempts, last_failed_login, is_active,
                   phone_encrypted>>
    /\ UNCHANGED <<history_vars, race_vars, store_vars>>

NextAccess ==
    \/ \E u \in Staff, p \in Subjects, b \in {1}, d \in DocIds :
          UploadRegistered(u, p, b, d)
    \/ \E u \in Subjects, id \in 1..MaxRecords :
          \/ /\ Len(audit_log) < MaxAudit
             /\ VerifyRecord(u, id)
          \/ VerifyNotFound(u, id)
          \/ MyMedicalRecordDetail(u, id)
    \/ \E u \in Subjects \cup Staff, id \in 1..MaxRecords :
          \/ DownloadRecord(u, id)
          \/ DownloadForbidden(u, id)
          \/ DownloadNotFound(u, id)
    \/ \E u \in Subjects \cup Staff, p \in Subjects : PatientRecords(u, p)
    \/ \E u \in Subjects : MyMedicalRecords(u)

SpecAccess == InitLedger /\ [][NextAccess]_vars

\* the record with this id exists and belongs to another patient
OthersRecord(user, id) ==
    \E i \in RecordsWithId(id) : records[i].patient # user

====
